---- MODULE Spec2Model ----
(***************************************************************************)
(* GPM-IMERG mirror update (gpm.py, util.py).                              *)
(*                                                                         *)
(* The model follows main(): the day range is turned into the list of day  *)
(* directories, a session is opened, download_yr walks the year listing    *)
(* and every day page, and process_file decides for each distinct entry    *)
(* whether to download it, to refresh it or to leave it alone.  A process  *)
(* that ended (by returning or by an uncaught exception) can be started    *)
(* again over the same remote archive and the local files it left behind.  *)
(*                                                                         *)
(* Strings that the code converts are modelled by what the conversion      *)
(* does: day names are sequences of decimal digits (int(), str(),          *)
(* zfill(3), [:3]); a last-modified string is either unparseable, or a     *)
(* wall-clock time with or without a UTC offset; a local modification time *)
(* is a POSIX timestamp that datetime.fromtimestamp turns into the wall    *)
(* clock of the process's time zone.  Times are whole hours.               *)
(***************************************************************************)
EXTENDS Integers, Sequences, FiniteSets, TLC

\* ---------------------------------------------------------------- bounds
NumDays == 2    \* day-of-year directories in the year listing
MaxRows == 3    \* rows of one day page
MaxTime == 2    \* latest remote modification instant; the first run starts then
MaxSize == 2    \* largest size in bytes (listed or received)
MaxRuns == 2    \* successive invocations of the script

\* ------------------------------------------------------- environment sets
Names == {"a", "b"}
TZOffsets == {-1, 0, 1}

RangeOf(s) == {s[k] : k \in 1..Len(s)}

\* ------------------------------------------------------ string conversions
\* int(s) for a string of decimal digits
RECURSIVE IntOf(_)
IntOf(s) == IF s = <<>> THEN 0
            ELSE 10 * IntOf(SubSeq(s, 1, Len(s) - 1)) + s[Len(s)]

\* str(n) for n >= 0
RECURSIVE StrOf(_)
StrOf(n) == IF n < 10 THEN <<n>> ELSE StrOf(n \div 10) \o <<n % 10>>

\* s.zfill(w)
RECURSIVE ZFill(_, _)
ZFill(s, w) == IF Len(s) >= w THEN s ELSE ZFill(<<0>> \o s, w)

\* s[:n]
Prefix(s, n) == SubSeq(s, 1, IF Len(s) < n THEN Len(s) ELSE n)

\* list(range(a, b))
PyRange(a, b) == [k \in 1..(IF b > a THEN b - a ELSE 0) |-> a + k - 1]

\* main: days = [str(i).zfill(3) for i in range(int(dr[0]), int(dr[1]) + 1)],
\* or [] when the first half of the argument is empty
DaysOf(dr) ==
    IF dr[1] # <<>>
    THEN LET fromd == IntOf(dr[1])
             tod == IntOf(dr[2]) + 1
             r == PyRange(fromd, tod)
         IN [k \in 1..Len(r) |-> ZFill(StrOf(r[k]), 3)]
    ELSE <<>>

\* download_yr: the test that skips a day directory
SkipSubdir(dys, subdir) == dys # <<>> /\ Prefix(subdir, 3) \notin RangeOf(dys)

\* ---------------------------------------------------------- remote archive
\* the year page lists the day directories 009, 010, ...
YearListing == [k \in 1..NumDays |-> ZFill(StrOf(8 + k), 3)]

Href(subdir, n) == [stem |-> <<subdir, n>>, ext |-> "HDF5.html"]

\* process_file: href.replace('HDF5.html', 'nc') under data_dir/yr
LocalNameOf(href) == [stem |-> href.stem, ext |-> "nc"]

\* process_file: href.replace('.html', '.nc4') under http_url/yr/subdir
UrlOf(href) == [stem |-> href.stem, ext |-> "HDF5.nc4"]

Unbound == [stem |-> <<<<>>, "">>, ext |-> "unbound"]

\* the rows of a day page: one row per occurrence of a name
ListFiles(rem, subdir) ==
    [k \in 1..Len(rem.shape) |->
        [href |-> Href(subdir, rem.shape[k]),
         last_mod |-> rem.last_mod,
         size |-> rem.size]]

NoRow == [href |-> [stem |-> <<<<>>, "">>, ext |-> ""],
          last_mod |-> [kind |-> "empty", wall |-> 0, off |-> 0],
          size |-> 0]

LocalNames == {LocalNameOf(Href(YearListing[k], n)) : k \in 1..NumDays, n \in Names}

\* ------------------------------------------------------- last-modified text
EmptyText == [kind |-> "empty", wall |-> 0, off |-> 0]
BadText == [kind |-> "bad", wall |-> 0, off |-> 0]
AwareText(u, o) == [kind |-> "aware", wall |-> u + o, off |-> o]
NaiveText(w) == [kind |-> "naive", wall |-> w, off |-> 0]

RemoteInstants == 1..MaxTime
LastModTexts == {EmptyText, BadText, NaiveText(MaxTime)}
                \cup {AwareText(u, o) : u \in RemoteInstants, o \in TZOffsets}

\* the instant (UTC) an offset-carrying text denotes
InstantOf(text) == text.wall - text.off

SeqsUpTo(S, n) == UNION {[1..k -> S] : k \in 0..n}

\* ------------------------------------------------------------ util.check_mdt
\* datetime.fromtimestamp(mtime): the wall clock of the process's time zone;
\* .replace(tzinfo=pytz.UTC) then labels that wall clock as UTC
LocalModDate(mtime, zone) == mtime + zone

\* the exception check_mdt ends with, "" when it returns
CheckMdtRaises(text) ==
    CASE text.kind = "empty" -> "MissingSchema"   \* not remoteModDate: req.head(None)
      [] text.kind = "bad"   -> "ParserError"     \* dateutil.parser.parse
      [] text.kind = "naive" -> "TypeError"       \* aware < naive
      [] OTHER               -> ""

\* to_update = localModDate < remoteModDate
ToUpdate(text, mtime, zone) == LocalModDate(mtime, zone) < InstantOf(text)

\* -------------------------------------------------------- gpm.download_file
DownloadStatus_OffByOne(got, size) ==
    IF got <= size THEN "error" ELSE "fine"

\* status = 'error' if local_size < size, 'fine' otherwise
DownloadStatus(got, size) == IF got < size THEN "error" ELSE "fine"

\* ------------------------------------------------------------------ inputs
DefaultRange == <<<<>>, <<>>>>     \* "/".split("/")
DayTexts == {ZFill(StrOf(n), 3) : n \in 8..(9 + NumDays)}
DayRangeArgs == {DefaultRange} \cup {<<s, e>> : s \in DayTexts, e \in DayTexts}

NoFile == [exists |-> FALSE, mtime |-> 0]
FileAt(m) == [exists |-> TRUE, mtime |-> m]
Inventories == [Names -> {NoFile} \cup {FileAt(m) : m \in 0..MaxTime}]
EmptyInventory == [n \in Names |-> NoFile]

BaseRemote == [shape |-> <<"a", "b">>, last_mod |-> AwareText(MaxTime, 0), size |-> 1]

\* every day range, over an empty mirror and over one with an old file
DayInputs ==
    {[dr |-> d, zone |-> 0, remote |-> BaseRemote, inv |-> v] :
        d \in DayRangeArgs,
        v \in {EmptyInventory, [EmptyInventory EXCEPT !["a"] = FileAt(0)]}}

\* every day page of up to MaxRows rows, repeated names included
ShapeInputs ==
    {[dr |-> DefaultRange, zone |-> 0,
      remote |-> [BaseRemote EXCEPT !.shape = sh], inv |-> EmptyInventory] :
        sh \in SeqsUpTo(Names, MaxRows)}

\* every time zone, last-modified text, listed size and local inventory
SyncInputs ==
    {[dr |-> DefaultRange, zone |-> z,
      remote |-> [BaseRemote EXCEPT !.last_mod = lm, !.size = sz], inv |-> v] :
        z \in TZOffsets, lm \in LastModTexts, sz \in 1..MaxSize, v \in Inventories}

Inputs == DayInputs \cup ShapeInputs \cup SyncInputs

\* ------------------------------------------------------------------- state
VARIABLES
    day_range,   \* args["day_range"].split("/")
    tz,          \* UTC offset of the process's time zone
    remote,      \* the remote archive: what every day page lists
    fs,          \* local files under data_dir/yr
    now,         \* the clock
    run,         \* which invocation of the script this is
    prev,        \* how the previous invocation ended and what it recorded
    pc,          \* position of the process
    exc,         \* the uncaught exception that ended the process, or ""
    auth,        \* what the login post met: "none", "accepted", "rejected"
    days,        \* main: days
    links,       \* download_yr: the day links of the year page
    i,           \* download_yr: links taken so far
    rows,        \* download_yr: the rows of the current day page
    j,           \* download_yr: rows taken so far
    done_list,   \* download_yr: done_list
    status,      \* download_yr: status
    cur,         \* process_file: href, last_mod, size
    furl,        \* process_file: furl, Unbound until assigned
    decision,    \* what process_file decided for cur
    local_size,  \* download_file: local_size
    calls,       \* hrefs process_file was called with for the current page
    visited,     \* day directories whose page was requested in this run
    downloads,   \* local names download_file was called for in this run
    removed      \* local names os.remove was called for in this run

vars == <<day_range, tz, remote, fs, now, run, prev, pc, exc, auth, days,
          links, i, rows, j, done_list, status, cur, furl, decision,
          local_size, calls, visited, downloads, removed>>

inputVars == <<day_range, tz, remote>>
loopVars == <<links, i, rows, j, done_list, calls, visited>>
fileVars == <<cur, furl, decision, local_size>>
logVars == <<downloads, removed>>

EmptyStatus == [new |-> <<>>, updated |-> <<>>, error |-> <<>>]

Init ==
    \E inp \in Inputs :
        /\ day_range = inp.dr
        /\ tz = inp.zone
        /\ remote = inp.remote
        /\ fs = [f \in LocalNames |-> inp.inv[f.stem[2]]]
        /\ now = MaxTime
        /\ run = 1
        /\ prev = [ended |-> "none", auth |-> "none", error |-> <<>>]
        /\ pc = "main"
        /\ exc = ""
        /\ auth = "none"
        /\ days = <<>>
        /\ links = <<>>
        /\ i = 0
        /\ rows = <<>>
        /\ j = 0
        /\ done_list = <<>>
        /\ status = EmptyStatus
        /\ cur = NoRow
        /\ furl = Unbound
        /\ decision = "none"
        /\ local_size = -1
        /\ calls = <<>>
        /\ visited = <<>>
        /\ downloads = <<>>
        /\ removed = <<>>

\* ----------------------------------------------------------------- actions
\* main, up to the session: the day list is built from the day range (the
\* password, the log and the year directory leave no trace in this state)
Main ==
    /\ pc = "main"
    /\ days' = DaysOf(day_range)
    /\ pc' = "open_session"
    /\ UNCHANGED <<inputVars, fs, now, run, prev, exc, auth, loopVars, status,
                   fileVars, logVars>>

\* open_session: the post either raises (no connection) or returns; what it
\* returns is not looked at, so a refused login yields a session as well
OpenSession ==
    /\ pc = "open_session"
    /\ \E met \in {"accepted", "rejected", "unreachable"} :
        IF met = "unreachable"
        THEN /\ pc' = "raised"
             /\ exc' = "ConnectionError"
             /\ auth' = auth
        ELSE /\ pc' = "download_yr"
             /\ exc' = exc
             /\ auth' = met
    /\ UNCHANGED <<inputVars, fs, now, run, prev, days, loopVars, status,
                   fileVars, logVars>>

\* download_yr, up to the loop: the year page is requested and parsed; a
\* session whose login was refused is served a page without day links
DownloadYr_ListYear ==
    /\ pc = "download_yr"
    /\ \/ /\ pc' = "raised"
          /\ exc' = "ConnectionError"
          /\ UNCHANGED <<links, i, status>>
       \/ /\ links' = IF auth = "accepted" THEN YearListing ELSE <<>>
          /\ i' = 0
          /\ status' = EmptyStatus
          /\ pc' = "link"
          /\ exc' = exc
    /\ UNCHANGED <<inputVars, fs, now, run, prev, auth, days, rows, j,
                   done_list, calls, visited, fileVars, logVars>>

\* download_yr, outer loop: the next day link is skipped or its page is
\* requested and parsed
DownloadYr_NextSubdir ==
    /\ pc = "link"
    /\ i < Len(links)
    /\ i' = i + 1
    /\ LET subdir == links[i + 1] IN
        IF SkipSubdir(days, subdir)
        THEN UNCHANGED <<pc, exc, rows, j, done_list, calls, visited>>
        ELSE /\ visited' = Append(visited, subdir)
             /\ \/ /\ pc' = "raised"
                   /\ exc' = "ConnectionError"
                   /\ UNCHANGED <<rows, j, done_list, calls>>
                \/ /\ rows' = ListFiles(remote, subdir)
                   /\ j' = 0
                   /\ done_list' = <<>>
                   /\ calls' = <<>>
                   /\ pc' = "row"
                   /\ exc' = exc
    /\ UNCHANGED <<inputVars, fs, now, run, prev, auth, days, links, status,
                   fileVars, logVars>>

\* download_yr, after the outer loop: status is returned to main
DownloadYr_Return ==
    /\ pc = "link"
    /\ i = Len(links)
    /\ pc' = "summary"
    /\ UNCHANGED <<inputVars, fs, now, run, prev, exc, auth, days, loopVars,
                   status, fileVars, logVars>>

AlreadyDone_Never(href, done) == FALSE

\* href in done_list
AlreadyDone(href, done) == href \in RangeOf(done)

\* download_yr, inner loop: the next row is dropped when its href was seen
\* on this page, and handed to process_file otherwise
DownloadYr_NextRow ==
    /\ pc = "row"
    /\ j < Len(rows)
    /\ j' = j + 1
    /\ decision' = "none"
    /\ local_size' = -1
    /\ furl' = Unbound
    /\ LET row == rows[j + 1] IN
        IF AlreadyDone(row.href, done_list)
        THEN /\ cur' = NoRow
             /\ UNCHANGED <<pc, done_list, calls>>
        ELSE /\ done_list' = Append(done_list, row.href)
             /\ calls' = Append(calls, row.href)
             /\ cur' = row
             /\ pc' = "process_file"
    /\ UNCHANGED <<inputVars, fs, now, run, prev, exc, auth, days, links, i,
                   rows, visited, status, logVars>>

\* download_yr, after the inner loop
DownloadYr_EndPage ==
    /\ pc = "row"
    /\ j = Len(rows)
    /\ pc' = "link"
    /\ cur' = NoRow
    /\ decision' = "none"
    /\ local_size' = -1
    /\ furl' = Unbound
    /\ UNCHANGED <<inputVars, fs, now, run, prev, exc, auth, days, loopVars,
                   status, logVars>>

\* download_file called from process_file with url, for the list named key:
\* the request may raise, and so may the write, before or after the file is
\* created; otherwise the body is written, the file is sized and the local
\* name goes to key or to 'error'
DownloadFile(url, key) ==
    LET local_name == LocalNameOf(cur.href) IN
    /\ downloads' = Append(downloads, local_name)
    /\ \/ /\ exc' = "ConnectionError"      \* session.get(url)
          /\ pc' = "raised"
          /\ UNCHANGED <<fs, local_size, status>>
       \/ /\ exc' = "OSError"              \* open(fname, 'wb') or f.write
          /\ pc' = "raised"
          /\ \/ fs' = fs
             \/ fs' = [fs EXCEPT ![local_name] = FileAt(now)]
          /\ UNCHANGED <<local_size, status>>
       \/ \E received \in 0..MaxSize :
            /\ fs' = [fs EXCEPT ![local_name] = FileAt(now)]
            /\ local_size' = received
            /\ status' = IF DownloadStatus(received, cur.size) = "error"
                         THEN [status EXCEPT !.error = Append(@, local_name)]
                         ELSE [status EXCEPT ![key] = Append(@, local_name)]
            /\ pc' = "row"
            /\ exc' = exc

\* process_file, local file missing: furl is built and the file downloaded
ProcessFile_New ==
    /\ pc = "process_file"
    /\ ~fs[LocalNameOf(cur.href)].exists
    /\ decision' = "FetchNew"
    /\ furl' = UrlOf(cur.href)
    /\ DownloadFile(UrlOf(cur.href), "new")
    /\ UNCHANGED <<inputVars, now, run, prev, auth, days, loopVars, cur, removed>>

\* process_file, local file present: check_mdt raises, or says whether the
\* local file is older than the remote one
ProcessFile_CheckMdt ==
    /\ pc = "process_file"
    /\ fs[LocalNameOf(cur.href)].exists
    /\ LET raises == CheckMdtRaises(cur.last_mod) IN
        IF raises # ""
        THEN /\ pc' = "raised"
             /\ exc' = raises
             /\ decision' = decision
        ELSE /\ exc' = exc
             /\ IF ToUpdate(cur.last_mod, fs[LocalNameOf(cur.href)].mtime, tz)
                THEN decision' = "FetchUpdate" /\ pc' = "remove"
                ELSE decision' = "Skip" /\ pc' = "row"
    /\ UNCHANGED <<inputVars, fs, now, run, prev, auth, days, loopVars, status,
                   cur, furl, local_size, logVars>>

\* process_file, update: os.remove(local_name)
ProcessFile_Remove ==
    /\ pc = "remove"
    /\ removed' = Append(removed, LocalNameOf(cur.href))
    /\ \/ /\ pc' = "raised"
          /\ exc' = "OSError"
          /\ fs' = fs
       \/ /\ fs' = [fs EXCEPT ![LocalNameOf(cur.href)] = NoFile]
          /\ pc' = "redownload"
          /\ exc' = exc
    /\ UNCHANGED <<inputVars, now, run, prev, auth, days, loopVars, status,
                   fileVars, downloads>>

\* process_file, update: download_file(session, furl, ...); furl is a local
\* name that only the other branch assigns
ProcessFile_Redownload ==
    /\ pc = "redownload"
    /\ IF furl = Unbound
       THEN /\ pc' = "raised"
            /\ exc' = "UnboundLocalError"
            /\ UNCHANGED <<fs, status, local_size, downloads>>
       ELSE DownloadFile(furl, "updated")
    /\ UNCHANGED <<inputVars, now, run, prev, auth, days, loopVars, cur, furl,
                   decision, removed>>

\* main, after download_yr: the summary is logged and the process ends
PrintSummary ==
    /\ pc = "summary"
    /\ pc' = "exit"
    /\ UNCHANGED <<inputVars, fs, now, run, prev, exc, auth, days, loopVars,
                   status, fileVars, logVars>>

\* the script is started again, later, over the same archive and the local
\* files the process before it left
Rerun ==
    /\ pc \in {"exit", "raised"}
    /\ run < MaxRuns
    /\ run' = run + 1
    /\ now' = now + 1
    /\ prev' = [ended |-> IF pc = "exit" THEN "returned" ELSE "raised",
                auth |-> auth,
                error |-> status.error]
    /\ pc' = "main"
    /\ exc' = ""
    /\ auth' = "none"
    /\ days' = <<>>
    /\ links' = <<>>
    /\ i' = 0
    /\ rows' = <<>>
    /\ j' = 0
    /\ done_list' = <<>>
    /\ status' = EmptyStatus
    /\ cur' = NoRow
    /\ furl' = Unbound
    /\ decision' = "none"
    /\ local_size' = -1
    /\ calls' = <<>>
    /\ visited' = <<>>
    /\ downloads' = <<>>
    /\ removed' = <<>>
    /\ UNCHANGED <<inputVars, fs>>

Next ==
    \/ Main
    \/ OpenSession
    \/ DownloadYr_ListYear
    \/ DownloadYr_NextSubdir
    \/ DownloadYr_Return
    \/ DownloadYr_NextRow
    \/ DownloadYr_EndPage
    \/ ProcessFile_New
    \/ ProcessFile_CheckMdt
    \/ ProcessFile_Remove
    \/ ProcessFile_Redownload
    \/ PrintSummary
    \/ Rerun

Spec == Init /\ [][Next]_vars

TypeOK ==
    /\ pc \in {"main", "open_session", "download_yr", "link", "row",
               "process_file", "remove", "redownload", "summary", "exit", "raised"}
    /\ run \in 1..MaxRuns
    /\ fs \in [LocalNames -> {NoFile} \cup {FileAt(m) : m \in 0..(MaxTime + MaxRuns)}]

\* ------------------------------------------------------------- properties
CurLocal == LocalNameOf(cur.href)

Count(seq, x) == Cardinality({k \in 1..Len(seq) : seq[k] = x})

Hrefs(rs) == [k \in 1..Len(rs) |-> rs[k].href]

\* the distinct elements of a sequence, in the order they first occur
RECURSIVE FirstSeen(_)
FirstSeen(seq) ==
    IF seq = <<>> THEN <<>>
    ELSE LET before == FirstSeen(SubSeq(seq, 1, Len(seq) - 1))
             last == seq[Len(seq)]
         IN IF \E k \in 1..Len(before) : before[k] = last
            THEN before
            ELSE Append(before, last)

\* C1: an entry whose local file is older than the remote one has its file
\* removed, is then downloaded exactly once, and its local name goes to
\* 'updated' or to 'error'; the run goes on with the next row.
C1_UpdateRedownloads ==
    [][pc = "redownload" =>
        /\ ~fs[CurLocal].exists
        /\ downloads' = Append(downloads, CurLocal)
        /\ \/ status'.updated = Append(status.updated, CurLocal)
           \/ status'.error = Append(status.error, CurLocal)
        /\ pc' = "row"]_vars

\* the classification C2 states, both times taken as instants (UTC)
Decide(row, l) ==
    IF ~l.exists THEN "FetchNew"
    ELSE IF l.mtime < InstantOf(row.last_mod) THEN "FetchUpdate"
    ELSE "Skip"

\* C2: process_file classifies an entry FetchNew exactly when the local file
\* is missing, FetchUpdate exactly when it exists and its modification
\* instant is strictly earlier than the remote one, Skip exactly when it
\* exists and its modification instant is the remote one or later.
C2_Classification ==
    [][(pc = "process_file"
        /\ (fs[CurLocal].exists => cur.last_mod.kind = "aware"))
       => decision' = Decide(cur, fs[CurLocal])]_vars

\* C3: an entry without a local file is downloaded at once; when
\* download_file has sized the file, the local name goes to 'new' if that
\* size is at least the listed size, and to 'error' and not to 'new' if it
\* is strictly smaller.
C3_NewBySize ==
    [][(pc = "process_file" /\ ~fs[CurLocal].exists) =>
        /\ downloads' = Append(downloads, CurLocal)
        /\ decision' = "FetchNew"
        /\ (local_size' >= 0 /\ local_size' >= cur.size) =>
              /\ status'.new = Append(status.new, CurLocal)
              /\ status'.error = status.error
        /\ (local_size' >= 0 /\ local_size' < cur.size) =>
              /\ status'.error = Append(status.error, CurLocal)
              /\ status'.new = status.new
              /\ CurLocal \notin RangeOf(status'.new)
        /\ status'.updated = status.updated]_vars

\* a run in which one new file passed the size test and the one just
\* downloaded fell short of the listed size
C3_Witness ==
    /\ decision = "FetchNew"
    /\ local_size >= 0
    /\ local_size < cur.size
    /\ status.error # <<>>
    /\ status.error[Len(status.error)] = CurLocal
    /\ status.new # <<>>
    /\ \E k \in 1..Len(status.new) : fs[status.new[k]].exists

\* C4: a run that follows a run which returned, over the same listings,
\* downloads nothing, removes nothing, classifies every entry Skip and ends
\* with 'new' and 'updated' empty.
C4_SecondRunIdle ==
    (prev.ended = "returned" /\ prev.auth = "accepted" /\ auth = "accepted") =>
        /\ status.new = <<>>
        /\ status.updated = <<>>
        /\ downloads = <<>>
        /\ removed = <<>>
        /\ decision \in {"none", "Skip"}

\* C5: of the rows of a day page taken so far, process_file has been called
\* once for every distinct href, in the order the hrefs first occur, and no
\* name of the page has been downloaded more than once.
C5_OncePerName ==
    /\ calls = FirstSeen(Hrefs(SubSeq(rows, 1, j)))
    /\ \A k \in 1..Len(rows) : Count(downloads, LocalNameOf(rows[k].href)) <= 1

\* a page a, b, a taken to its end: two calls, each name downloaded once
C5_Witness ==
    /\ pc = "row"
    /\ j = Len(rows)
    /\ Len(rows) = 3
    /\ rows[1].href = rows[3].href
    /\ rows[1].href # rows[2].href
    /\ calls = <<rows[1].href, rows[2].href>>
    /\ Count(downloads, LocalNameOf(rows[1].href)) = 1
    /\ Count(downloads, LocalNameOf(rows[2].href)) = 1

\* C6: for an entry whose local file exists and whose last-modified text
\* cannot be parsed, nothing is downloaded or removed, the local name goes
\* to 'error', the entry is not classified Skip, and the run goes on.
C6_ParseFailureRecorded ==
    [][(pc = "process_file" /\ fs[CurLocal].exists
        /\ cur.last_mod.kind \in {"empty", "bad"}) =>
        /\ status'.error = Append(status.error, CurLocal)
        /\ decision' # "Skip"
        /\ downloads' = downloads
        /\ removed' = removed
        /\ fs' = fs
        /\ pc' = "row"]_vars

\* start <= d <= end, or no range given
InDayRange(dr, subdir) ==
    \/ dr = DefaultRange
    \/ /\ IntOf(dr[1]) <= IntOf(Prefix(subdir, 3))
       /\ IntOf(Prefix(subdir, 3)) <= IntOf(dr[2])

\* C7: a day directory is processed exactly when its day number lies in the
\* range given, both ends included, and always when no range is given.
C7_DayFilter ==
    [][(pc = "link" /\ i < Len(links)) =>
        ((visited' = Append(visited, links[i + 1]))
            <=> InDayRange(day_range, links[i + 1]))]_vars

\* C8: no failure met while one entry is handled (the download request, the
\* removal or the write of its file) ends the run.
C8_EntryFailureNotFatal ==
    ~(pc = "raised" /\ cur # NoRow /\ exc \in {"ConnectionError", "OSError"})

\* C9: an entry whose download fell short of the listed size in the run
\* before is not classified Skip in this run.
C9_ErroredNotSkipped ==
    [][(pc = "process_file" /\ prev.ended = "returned"
        /\ CurLocal \in RangeOf(prev.error))
       => decision' # "Skip"]_vars

\* C10: after a refused login no listing is requested.
C10_NoListingAfterFailedLogin ==
    auth = "rejected" => pc \notin {"link", "row", "process_file", "remove",
                                   "redownload", "summary", "exit"}
====
